---- MODULE Spec2Model ----
(***************************************************************************)
(* Cloud sync orchestration of middlewared (plugins/cloud_sync.py) and the *)
(* in-memory cache (plugins/cache.py).                                     *)
(*                                                                         *)
(* Two state machines share this module:                                   *)
(*   Spec      the transfer executor: sync(id) jobs under the per-task job *)
(*             lock, rclone(), the progress reader and the child process;  *)
(*   SpecCrud  the task manager: do_create / do_update / do_delete with    *)
(*             _validate, _validate_folder, _compress and _extend.         *)
(***************************************************************************)
EXTENDS Integers, Sequences, FiniteSets, TLC

VARIABLES
    job,        \* Spec: per sync() request, the job and the coroutine's position
    tasks,      \* SpecCrud: the tasks.cloudsync table, id -> stored record
    call,       \* SpecCrud: the method call being handled, and what its handler did
    conf,       \* SpecConfig: one use of RcloneConfig by rclone()
    cache,      \* SpecCache: CacheService.__cache, key -> stored object
    now,        \* SpecCache: the clock, datetime.now(timezone.utc)
    written,    \* SpecCache: history, per key the arguments of the last put
    reply       \* SpecCache: the last call of the cache and what it gave

cachevars == <<cache, now, written, reply>>
vars == <<job, tasks, call, conf, cache, now, written, reply>>

(***************************************************************************)
(* Bounds of the model.                                                    *)
(***************************************************************************)
MaxJobs == 2        \* sync() requests issued in one behaviour
NumTasks == 2       \* task ids the requests are drawn from
MaxLines == 1       \* lines the child processes write in one behaviour

MaxPatch == 1       \* fields one update request names
MaxListing == 2     \* entries of one directory listing
MaxTime == 2        \* instants of the cache's clock after the first

Jobs == 1..MaxJobs
SyncIds == 1..NumTasks
\* The task manager's handlers read and write only the row of the id they
\* are given: the model follows the first row of tasks.cloudsync.
TaskIds == {1}

(***************************************************************************)
(* The transfer executor: its lines, errors and lock.                      *)
(***************************************************************************)

\* The lines the child writes on its merged stdout/stderr: a diagnostic, a
\* statistics line with a human-readable value, one with a purely numeric value.
LineDiag == "ERROR : directory not found"
LineStats == "Transferred:   1.5 MBytes"
LineDigits == "Transferred:   10"
\* The lines the child writes in this model.
Lines == {LineDiag, LineStats}

\* RE_TRANSF.search(read): the text after "Transferred:", stripped; "" when the
\* line does not match.
Transferred(line) ==
    CASE line = LineStats -> "1.5 MBytes"
      [] line = LineDigits -> "10"
      [] OTHER -> ""

\* transferred.isdigit()
IsDigit(s) == s = "10"

\* The message of the ValueError rclone() raises, as the lines of its text.
RcloneFailed == <<"rclone failed">>
\* Any other exception that ends a run (KeyError, OSError, ...).
OtherError == <<"exception">>

NoLock == <<>>

\* The job lock of sync(): lock=lambda args: "cloud_sync:{}".format(args[-1]).
LockNameNone(args) == NoLock
\* One lock for all tasks.
LockNameGlobal(args) == <<"cloud_sync", 0>>
LockName(args) == <<"cloud_sync", args[Len(args)]>>

\* lock_queue_size=1 of sync()'s @job decorator.
LockQueueSizeTwo == 1 + 1
LockQueueSize == 1

(***************************************************************************)
(* The task manager.                                                       *)
(***************************************************************************)

\* The provider registry REMOTES: a provider with buckets that can be written
\* to, and a read-only provider without buckets.
REMOTES ==
    [S3 |-> [buckets |-> TRUE, readonly |-> FALSE, rclone_type |-> <<"s3">>],
     HTTP |-> [buckets |-> FALSE, readonly |-> TRUE, rclone_type |-> <<"http">>]]

\* The rows of system.cloudcredentials.  Credential 3 names a provider that is
\* not registered; no credential has id 4.
CloudCredentials ==
    [i \in 1..3 |-> [id |-> i, provider |-> <<"S3", "HTTP", "GONE">>[i]]]

\* A secret value: its text and how many times pwenc_encrypt has been applied.
Plain(text) == [layers |-> 0, text |-> text]
pwenc_encrypt(v) == [v EXCEPT !.layers = @ + 1]
pwenc_decrypt(v) == [v EXCEPT !.layers = IF @ > 0 THEN @ - 1 ELSE 0]
\* `not value`: the empty string; a ciphertext is never empty.
IsEmpty(v) == v.layers = 0 /\ v.text = ""

\* Folders, as the sequence of their separators and names.
NotAString == <<"<not a string>">>
Folders == {<<>>, <<"dir">>, <<"/", "a", "/", "dir">>}
Bucket == "mybucket"

\* Schedules in the public cron representation.
Hourly == [minute |-> "00", hour |-> "*", dom |-> "*", month |-> "*", dow |-> "*"]
Nightly == [minute |-> "30", hour |-> "2", dom |-> "*", month |-> "*", dow |-> "1-5"]

\* Cron.convert_schedule_to_db_format: the columns of the persisted form.
convert_schedule_to_db_format(schedule) ==
    [minute |-> schedule.minute, hour |-> schedule.hour, daymonth |-> schedule.dom,
     month |-> schedule.month, dayweek |-> schedule.dow]

\* Cron.convert_db_format_to_schedule
convert_db_format_to_schedule(row) ==
    [minute |-> row.minute, hour |-> row.hour, dom |-> row.daymonth,
     month |-> row.month, dow |-> row.dayweek]

Fields == {"direction", "credentials", "encryption", "encryption_password",
           "encryption_salt", "schedule", "attributes"}

DefaultData ==
    [direction |-> "PUSH", credentials |-> 1, encryption |-> FALSE,
     encryption_password |-> Plain(""), encryption_salt |-> Plain(""),
     schedule |-> Hourly,
     attributes |-> [bucket |-> Bucket, folder |-> <<>>]]

\* The cloud_sync dictionaries a request can carry that names the fields in
\* keys; the fields it does not name are left at DefaultData and never read.
Named(keys) ==
    [direction : IF "direction" \in keys THEN {"PUSH", "PULL"} ELSE {DefaultData.direction},
     credentials : IF "credentials" \in keys THEN 1..4 ELSE {DefaultData.credentials},
     encryption : IF "encryption" \in keys THEN BOOLEAN ELSE {DefaultData.encryption},
     encryption_password : IF "encryption_password" \in keys
                           THEN {Plain(""), Plain("pw")}
                           ELSE {DefaultData.encryption_password},
     encryption_salt : IF "encryption_salt" \in keys
                       THEN {Plain("salt")}
                       ELSE {DefaultData.encryption_salt},
     schedule : IF "schedule" \in keys THEN {Nightly} ELSE {DefaultData.schedule},
     attributes : IF "attributes" \in keys
                  THEN [bucket : {Bucket}, folder : Folders \cup {NotAString}]
                  ELSE {DefaultData.attributes}]

\* The cloud_sync dictionaries a create request can carry.
TaskData == Named(Fields)

PatchKeys == {keys \in SUBSET Fields : Cardinality(keys) <= MaxPatch}

\* cloud_sync.update(data)
Update(cs, keys, val) ==
    [direction |-> IF "direction" \in keys THEN val.direction ELSE cs.direction,
     credentials |-> IF "credentials" \in keys THEN val.credentials ELSE cs.credentials,
     encryption |-> IF "encryption" \in keys THEN val.encryption ELSE cs.encryption,
     encryption_password |-> IF "encryption_password" \in keys
                             THEN val.encryption_password ELSE cs.encryption_password,
     encryption_salt |-> IF "encryption_salt" \in keys
                         THEN val.encryption_salt ELSE cs.encryption_salt,
     schedule |-> IF "schedule" \in keys THEN val.schedule ELSE cs.schedule,
     attributes |-> IF "attributes" \in keys THEN val.attributes ELSE cs.attributes]

\* _compress without the encryption of the two secrets.
CompressPlain(cs) ==
    [row |-> "stored", direction |-> cs.direction, credential |-> cs.credentials,
     encryption |-> cs.encryption,
     encryption_password |-> cs.encryption_password,
     encryption_salt |-> cs.encryption_salt,
     attributes |-> cs.attributes]
    @@ convert_schedule_to_db_format(cs.schedule)

\* _compress: credentials becomes credential, the two secrets are encrypted,
\* the schedule becomes the columns of the persisted form.
Compress(cs) ==
    [row |-> "stored", direction |-> cs.direction, credential |-> cs.credentials,
     encryption |-> cs.encryption,
     encryption_password |-> pwenc_encrypt(cs.encryption_password),
     encryption_salt |-> pwenc_encrypt(cs.encryption_salt),
     attributes |-> cs.attributes]
    @@ convert_schedule_to_db_format(cs.schedule)

\* _extend without the decryption of the two secrets.
ExtendEncrypted(row) ==
    [direction |-> row.direction, credentials |-> row.credential,
     encryption |-> row.encryption,
     encryption_password |-> row.encryption_password,
     encryption_salt |-> row.encryption_salt,
     schedule |-> convert_db_format_to_schedule(row),
     attributes |-> row.attributes]

\* _extend: credential becomes credentials, the two secrets are decrypted,
\* the columns of the schedule become the schedule.
Extend(row) ==
    [direction |-> row.direction, credentials |-> row.credential,
     encryption |-> row.encryption,
     encryption_password |-> pwenc_decrypt(row.encryption_password),
     encryption_salt |-> pwenc_decrypt(row.encryption_salt),
     schedule |-> convert_db_format_to_schedule(row),
     attributes |-> row.attributes]

\* The validation errors, as <<field, message>>.
ErrPassword == <<"encryption_password", "This field is required when encryption is enabled">>
ErrAttribute == <<"attributes.folder", "Not a string">>
ErrHook == <<"attributes", "pre_save_task">>
ErrNotDir == <<"attributes.folder", "This is not a directory">>
ErrNoDir == <<"attributes.folder", "Directory does not exist">>
ErrReadonly == <<"direction", "This remote is read-only">>

\* What a validation step leaves: the errors added so far, and whether an
\* exception other than ValidationErrors was raised, and the calls made.
Checked(errs, exc, calls) == [errs |-> errs, exc |-> exc, calls |-> calls]

\* _validate lines 261-263, with the check of the password left out.
EncryptionErrorsNone(data) == {}

\* _validate lines 261-263.
EncryptionErrors(data) ==
    IF data.encryption /\ IsEmpty(data.encryption_password) THEN {ErrPassword} ELSE {}

\* The credential exists and its provider is registered.
Resolves(credentials) ==
    /\ credentials \in DOMAIN CloudCredentials
    /\ CloudCredentials[credentials].provider \in DOMAIN REMOTES

Provider(credentials) == REMOTES[CloudCredentials[credentials].provider]

\* validate_attributes against Str("bucket") (if the provider has buckets),
\* Str("folder") and the provider's task schema, additional attributes allowed.
validate_attributes(provider, data) ==
    IF data.attributes.folder = NotAString THEN {ErrAttribute} ELSE {}

\* _validate: hook tells whether the provider's pre_save_task adds an error.
\* _get_credentials raises for a credential that does not exist, and
\* REMOTES[...] raises KeyError for a provider that is not registered.
Validate(data, hook) ==
    LET e1 == EncryptionErrors(data)
    IN IF ~Resolves(data.credentials) THEN Checked(e1, TRUE, <<>>)
       ELSE LET attributes_verrors == validate_attributes(Provider(data.credentials), data)
                hooked == IF attributes_verrors = {} /\ hook THEN {ErrHook} ELSE {}
            IN Checked(e1 \cup hooked \cup attributes_verrors, FALSE, <<>>)

RECURSIVE LStrip(_)
LStrip(f) == IF f # <<>> /\ Head(f) = "/" THEN LStrip(Tail(f)) ELSE f
RECURSIVE RStrip(_)
RStrip(f) == IF f # <<>> /\ f[Len(f)] = "/" THEN RStrip(SubSeq(f, 1, Len(f) - 1)) ELSE f
\* folder.strip("/")
Strip(f) == RStrip(LStrip(f))

RECURSIVE LastSlash(_)
\* The position of the last separator of f, 0 if it has none.
LastSlash(f) ==
    IF f = <<>> THEN 0 ELSE IF f[Len(f)] = "/" THEN Len(f)
    ELSE LastSlash(SubSeq(f, 1, Len(f) - 1))

\* os.path.basename(f)
Basename(f) == SubSeq(f, LastSlash(f) + 1, Len(f))

\* os.path.normpath(os.path.join(f, "..")), "." replaced by "", for a
\* stripped, non-empty f.
FolderParent(f) == RStrip(SubSeq(f, 1, LastSlash(f)))

\* The entries rclone lsjson can report.
Entries == [Name : {<<"dir">>, <<"a">>}, IsDir : BOOLEAN]
RECURSIVE SeqsUpTo(_, _)
SeqsUpTo(S, n) ==
    IF n = 0 THEN {<<>>}
    ELSE LET shorter == SeqsUpTo(S, n - 1)
         IN shorter \cup {Append(q, x) : q \in {r \in shorter : Len(r) = n - 1}, x \in S}
Listings == SeqsUpTo(Entries, MaxListing)

RECURSIVE FolderCheck(_, _)
\* The for/else of _validate_folder over the listing.
FolderCheck(ls, folder_basename) ==
    IF ls = <<>> THEN {ErrNoDir}
    ELSE IF Head(ls).Name = folder_basename
         THEN (IF ~Head(ls).IsDir THEN {ErrNotDir} ELSE {})
         ELSE FolderCheck(Tail(ls), folder_basename)

\* _validate_folder lines 308-314, with the read-only check left out.
ReadonlyErrorsNone(data) == {}

\* _validate_folder lines 308-314.
ReadonlyErrors(data) ==
    IF data.direction = "PUSH" /\ Provider(data.credentials).readonly
    THEN {ErrReadonly} ELSE {}

\* The task needs the pre-flight listing.
NeedsListing(data) ==
    /\ data.direction = "PULL"
    /\ data.attributes.folder # NotAString
    /\ Strip(data.attributes.folder) # <<>>

\* What the world answers during one validation: whether pre_save_task adds
\* an error (in _validate, and again in list_directory's _validate), whether
\* rclone lsjson exits with 0, and what it lists.
Answers == [hook : BOOLEAN, hook2 : BOOLEAN, lsok : BOOLEAN, ls : Listings]
NoAnswer == [hook |-> FALSE, hook2 |-> FALSE, lsok |-> TRUE, ls |-> <<>>]

\* The answers that matter for the data: those not read are left at NoAnswer.
AnswersFor(data) ==
    LET hooks == IF Resolves(data.credentials) /\ data.attributes.folder # NotAString
                 THEN BOOLEAN ELSE {NoAnswer.hook}
        lists == \* list_directory is reached when pre_save_task adds no error
            Resolves(data.credentials) /\ NeedsListing(data) /\ EncryptionErrors(data) = {}
    IN IF ~lists THEN {[NoAnswer EXCEPT !.hook = h] : h \in hooks}
       ELSE {[NoAnswer EXCEPT !.hook = TRUE], [NoAnswer EXCEPT !.hook2 = TRUE],
             [NoAnswer EXCEPT !.lsok = FALSE]}
            \cup {[NoAnswer EXCEPT !.ls = l] : l \in Listings}

\* _validate_folder, called with no error so far.  For PULL with a folder:
\* list_directory of the folder's parent (its own _validate, then ls, which
\* raises CallError when rclone fails), then the search for the folder.
ValidateFolder(data, w) ==
    IF NeedsListing(data)
    THEN LET folder == Strip(data.attributes.folder)
             listed == [data EXCEPT !.attributes.folder = FolderParent(folder)]
             inner == Validate(listed, w.hook2)
         IN IF inner.errs # {} THEN Checked(inner.errs, FALSE, <<>>)
            ELSE IF ~w.lsok THEN Checked({}, TRUE, <<"ls">>)
            ELSE Checked(FolderCheck(w.ls, Basename(folder)), FALSE, <<"ls">>)
    ELSE Checked(ReadonlyErrors(data), FALSE, <<>>)

\* `if verrors: raise verrors`, never raising.
RaisesNever(v) == v.exc

\* `if verrors: raise verrors` (or the exception already raised).
Raises(v) == v.exc \/ v.errs # {}

Outcome(v) == IF v.exc THEN "exception" ELSE IF v.errs # {} THEN "verrors" ELSE "ok"

\* The two validation steps with no raise between them.
ValidateAllEager(data, w) ==
    LET v1 == Validate(data, w.hook)
    IN IF v1.exc THEN v1
       ELSE LET v2 == ValidateFolder(data, w)
            IN Checked(v1.errs \cup v2.errs, v2.exc, v2.calls)

\* The two validation steps of do_create and do_update.
ValidateAll(data, w) ==
    LET v1 == Validate(data, w.hook)
    IN IF Raises(v1) THEN v1
       ELSE LET v2 == ValidateFolder(data, w)
            IN Checked(v1.errs \cup v2.errs, v2.exc, v2.calls)

\* No call received yet.  params: the dictionary of the call; cloud_sync: the
\* dictionary the handler validated; outcome: "ok", "verrors" (ValidationErrors
\* raised) or "exception"; calls: the calls the handler made on the listing
\* tool, the datastore and the scheduler, in order; listed: what ls returned
\* to _validate_folder.
CallInit ==
    [state |-> "none", method |-> "none", id |-> 0, keys |-> {},
     params |-> DefaultData, cloud_sync |-> DefaultData,
     outcome |-> "ok", errs |-> {}, calls |-> <<>>, listed |-> <<>>]

Free == [row |-> "free"]
Deleted == [row |-> "deleted"]

\* The id datastore.insert gives the next row (ids are not reused); 0 when
\* the table of this model is full.
NextId ==
    IF \E i \in TaskIds : tasks[i] = Free
    THEN CHOOSE i \in TaskIds : tasks[i] = Free /\ \A k \in TaskIds : k < i => tasks[k] # Free
    ELSE 0

\* A method call is received (one at a time): cloudsync.create with a
\* cloud_sync dictionary, cloudsync.update with an id and the fields to
\* change, cloudsync.delete with an id.
Receive(method, id, keys, params) ==
    /\ call.state # "pending"
    /\ params \in Named(keys)
    /\ \/ method = "create" /\ id = 0 /\ keys = Fields /\ NextId # 0
       \/ method = "update" /\ id \in TaskIds /\ keys \in PatchKeys
       \/ method = "delete" /\ id \in TaskIds /\ keys = {} /\ tasks[id].row = "stored"
    /\ call' = [CallInit EXCEPT !.state = "pending", !.method = method, !.id = id,
                                !.keys = keys, !.params = params]
    /\ UNCHANGED <<job, tasks, conf, cachevars>>

\* The write without the restart of cron.
PersistNoRestart(op) == <<op>>

\* The calls that persist a change: the datastore call, then
\* service.restart of cron.
Persist(op) == <<op, "restart">>

\* What the handler leaves in call when it returns or raises.
Returned(cloud_sync, v, w, id, calls) ==
    [call EXCEPT !.state = "done", !.id = id, !.cloud_sync = cloud_sync,
                 !.outcome = Outcome(v), !.errs = v.errs, !.calls = calls,
                 !.listed = IF v.calls # <<>> /\ ~v.exc THEN w.ls ELSE <<>>]

\* do_create
do_create(w) ==
    /\ call.state = "pending" /\ call.method = "create"
    /\ LET cloud_sync == call.params
           v == ValidateAll(cloud_sync, w)
       IN IF Raises(v)
          THEN /\ call' = Returned(cloud_sync, v, w, 0, v.calls)
               /\ tasks' = tasks
          ELSE /\ tasks' = [tasks EXCEPT ![NextId] = Compress(cloud_sync)]
               /\ call' = Returned(cloud_sync, v, w, NextId, v.calls \o Persist("insert"))
    /\ UNCHANGED <<job, conf, cachevars>>

\* do_update of a row that does not exist: _get_instance raises.
do_update_missing ==
    /\ call.state = "pending" /\ call.method = "update"
    /\ tasks[call.id].row # "stored"
    /\ call' = Returned(call.params, Checked({}, TRUE, <<>>), NoAnswer, call.id, <<>>)
    /\ UNCHANGED <<job, tasks, conf, cachevars>>

\* The data of the call alone.
MergedPatchOnly == call.params

\* The dictionary do_update validates: the stored task, extended, with its
\* credentials collapsed to the id, updated with the data of the call.
Merged == Update(Extend(tasks[call.id]), call.keys, call.params)

\* do_update of a stored task
do_update(w) ==
    /\ call.state = "pending" /\ call.method = "update"
    /\ tasks[call.id].row = "stored"
    /\ LET cloud_sync == Merged
           v == ValidateAll(cloud_sync, w)
       IN IF Raises(v)
          THEN /\ call' = Returned(cloud_sync, v, w, call.id, v.calls)
               /\ tasks' = tasks
          ELSE /\ tasks' = [tasks EXCEPT ![call.id] = Compress(cloud_sync)]
               /\ call' = Returned(cloud_sync, v, w, call.id, v.calls \o Persist("update"))
    /\ UNCHANGED <<job, conf, cachevars>>

\* do_delete
do_delete ==
    /\ call.state = "pending" /\ call.method = "delete"
    /\ tasks' = [tasks EXCEPT ![call.id] = Deleted]
    /\ call' = Returned(call.params, Checked({}, FALSE, <<>>), NoAnswer, call.id, Persist("delete"))
    /\ UNCHANGED <<job, conf, cachevars>>

(***************************************************************************)
(* The steps of the transfer executor.                                     *)
(***************************************************************************)

JobInit ==
    [state |-> "NONE", task |-> 0, pc |-> "-", file |-> "none", proc |-> "none",
     reader |-> "none", pipe |-> <<>>, log |-> <<>>, progress |-> "",
     error |-> <<>>, spawns |-> 0]

\* A job's lock name; the job's arguments are <<id>>.
JobLock(j) == LockName(<<job[j].task>>)

\* The run of job j is in flight: the job system has started sync() and it has
\* neither returned nor raised.
InFlight(j) == job[j].state = "RUNNING"

Ended(j) == job[j].state \in {"SUCCESS", "FAILED", "ABORTED"}

\* Jobs queued behind the lock with the given name.
Queued(name) == {k \in Jobs : job[k].state = "WAITING" /\ LockName(<<job[k].task>>) = name}

\* The job system receives a call of cloudsync.sync(id).  With a lock name, at
\* most LockQueueSize jobs wait for it: a further request gets the job that
\* is already waiting instead of a job of its own.
Request(j, id) ==
    /\ job[j].state = "NONE"
    /\ \A k \in Jobs : k < j => job[k].state # "NONE"
    /\ \A i \in SyncIds : i < id => \E k \in Jobs : job[k].task = i
    /\ LET name == LockName(<<id>>)
           full == name # NoLock /\ Cardinality(Queued(name)) >= LockQueueSize
       IN job' = [job EXCEPT ![j].task = id,
                             ![j].state = IF full THEN "MERGED" ELSE "WAITING"]
    /\ UNCHANGED <<tasks, call, conf, cachevars>>

\* The job system starts a waiting job once no running job holds its lock.
JobStart(j) ==
    /\ job[j].state = "WAITING"
    /\ JobLock(j) # NoLock =>
          \A k \in Jobs : InFlight(k) => JobLock(k) # JobLock(j)
    /\ job' = [job EXCEPT ![j].state = "RUNNING", ![j].pc = "get_instance"]
    /\ UNCHANGED <<tasks, call, conf, cachevars>>

\* __exit__: close (and so delete) the temporary file if there is one.
Exit(file) == IF file = "open" THEN "closed" ELSE file

\* sync() resumes from `await self._get_instance(id)` and runs rclone() up to
\* `await Popen(...)`.  outcome: "missing" the task does not exist; "init"
\* RcloneConfig.__init__ raises (REMOTES lookup); "enter" __enter__ raises
\* after it made the temporary file; "ok" the config is written and flushed.
\* When __enter__ raises, the with statement does not call __exit__.
SyncLoad(j, outcome) ==
    /\ InFlight(j) /\ job[j].pc = "get_instance"
    /\ \/ /\ outcome \in {"missing", "init"}
          /\ job' = [job EXCEPT ![j].state = "FAILED", ![j].pc = "-",
                                ![j].error = OtherError]
       \/ /\ outcome = "enter"
          /\ job' = [job EXCEPT ![j].state = "FAILED", ![j].pc = "-",
                                ![j].file = "open", ![j].error = OtherError]
       \/ /\ outcome = "ok"
          /\ job' = [job EXCEPT ![j].file = "open", ![j].pc = "Popen"]
    /\ UNCHANGED <<tasks, call, conf, cachevars>>

\* `await Popen(...)` returns the child process, or raises when the spawn
\* fails; then ensure_future(rclone_check_progress) and `await proc.wait()`.
PopenReturn(j, spawned) ==
    /\ InFlight(j) /\ job[j].pc = "Popen"
    /\ \/ /\ spawned
          /\ job' = [job EXCEPT ![j].proc = "running", ![j].reader = "reading",
                                ![j].spawns = @ + 1, ![j].pc = "proc.wait"]
       \/ /\ ~spawned
          /\ job' = [job EXCEPT ![j].state = "FAILED", ![j].pc = "-",
                                ![j].file = Exit(@), ![j].error = OtherError]
    /\ UNCHANGED <<tasks, call, conf, cachevars>>

RECURSIVE Written(_)
\* The lines the children of jobs 1..n have written so far, read or not.
Written(n) == IF n = 0 THEN 0 ELSE Len(job[n].log) + Len(job[n].pipe) + Written(n - 1)

\* The child process writes a line.
ChildWrite(j, line) ==
    /\ job[j].proc = "running"
    /\ Written(MaxJobs) < MaxLines
    /\ job' = [job EXCEPT ![j].pipe = Append(@, line)]
    /\ UNCHANGED <<tasks, call, conf, cachevars>>

\* The child process exits with return code rc.
ChildExit(j, rc) ==
    /\ job[j].proc = "running"
    /\ job' = [job EXCEPT ![j].proc = IF rc = 0 THEN "rc0" ELSE "rc1"]
    /\ UNCHANGED <<tasks, call, conf, cachevars>>

\* One turn of rclone_check_progress's loop: readline, write to the job's
\* log, stop at end of stream, else report a non-numeric Transferred value.
ReadLine(j) ==
    /\ job[j].reader = "reading"
    /\ \/ /\ job[j].pipe # <<>>
          /\ LET read == Head(job[j].pipe)
                 transferred == Transferred(read)
             IN job' = [job EXCEPT
                   ![j].pipe = Tail(@),
                   ![j].log = Append(@, read),
                   ![j].progress = IF transferred # "" /\ ~IsDigit(transferred)
                                   THEN transferred ELSE @]
       \/ /\ job[j].pipe = <<>>
          /\ job[j].proc \in {"rc0", "rc1"}
          /\ job' = [job EXCEPT ![j].reader = "done"]
    /\ UNCHANGED <<tasks, call, conf, cachevars>>

\* rclone() resumes from `await proc.wait()` without draining the reader.
WaitReturnNoDrain(j) ==
    /\ InFlight(j) /\ job[j].pc = "proc.wait"
    /\ job[j].proc \in {"rc0", "rc1"}
    /\ job' = [job EXCEPT ![j].state = IF job[j].proc = "rc0" THEN "SUCCESS" ELSE "FAILED",
                          ![j].error = IF job[j].proc = "rc0" THEN <<>> ELSE RcloneFailed,
                          ![j].pc = "-", ![j].file = Exit(@)]
    /\ UNCHANGED <<tasks, call, conf, cachevars>>

\* rclone() resumes from `await proc.wait()`: return True on return code 0,
\* else `await asyncio.wait_for(check_cloud_sync, None)`.
WaitReturn(j) ==
    /\ InFlight(j) /\ job[j].pc = "proc.wait"
    /\ \/ /\ job[j].proc = "rc0"
          /\ job' = [job EXCEPT ![j].state = "SUCCESS", ![j].pc = "-",
                                ![j].file = Exit(@)]
       \/ /\ job[j].proc = "rc1"
          /\ job' = [job EXCEPT ![j].pc = "wait_for"]
    /\ UNCHANGED <<tasks, call, conf, cachevars>>

\* As DrainReturn, raising the text the reader captured.
DrainReturnText(j) ==
    /\ InFlight(j) /\ job[j].pc = "wait_for"
    /\ job[j].reader = "done"
    /\ job' = [job EXCEPT ![j].state = "FAILED", ![j].pc = "-",
                          ![j].file = Exit(@), ![j].error = job[j].log]
    /\ UNCHANGED <<tasks, call, conf, cachevars>>

\* The reader has finished: raise ValueError("rclone failed").
DrainReturn(j) ==
    /\ InFlight(j) /\ job[j].pc = "wait_for"
    /\ job[j].reader = "done"
    /\ job' = [job EXCEPT ![j].state = "FAILED", ![j].pc = "-",
                          ![j].file = Exit(@), ![j].error = RcloneFailed]
    /\ UNCHANGED <<tasks, call, conf, cachevars>>

\* The job system aborts a running job: CancelledError is raised at the await
\* the coroutine is suspended in.  rclone() has no handler for it: the with
\* statement closes the config file, wait_for cancels the reader it awaits,
\* and nothing touches the child process.
Cancel(j) ==
    /\ InFlight(j)
    /\ job' = [job EXCEPT ![j].state = "ABORTED", ![j].pc = "-",
                          ![j].file = Exit(@),
                          ![j].reader = IF job[j].pc = "wait_for" /\ @ = "reading"
                                        THEN "cancelled" ELSE @]
    /\ UNCHANGED <<tasks, call, conf, cachevars>>

\* The NamedTemporaryFile of a failed __enter__ is closed by its finalizer,
\* whenever the interpreter collects it.
Finalize(j) ==
    /\ job[j].state = "FAILED" /\ job[j].file = "open"
    /\ job' = [job EXCEPT ![j].file = "closed"]
    /\ UNCHANGED <<tasks, call, conf, cachevars>>


(***************************************************************************)
(* The config builder (RcloneConfig) and the command line of rclone().     *)
(* Texts are sequences of tokens: "/" is the separator, any other token a   *)
(* text without separators.                                                *)
(***************************************************************************)

\* An attribute the dictionary does not have.
Absent == <<"<absent>">>
\* attributes.get(key, "")
Get(value) == IF value = Absent THEN <<>> ELSE value

Path == <<"/", "data">>
ConfigPath == <<"/", "tmp", "/", "tmpfile">>

\* rclone_encrypt_password(text): a token that stands for the obscured text
\* (the initialization vector is random).
Obscured(text) == <<"obscured", text>>

\* The attributes of the credential of each provider; the second has a
\* secret under the key `pass`.
CredentialAttributes(provider) ==
    IF provider = "S3" THEN <<[k |-> "access_key", v |-> <<"AK">>]>>
    ELSE <<[k |-> "url", v |-> <<"host">>], [k |-> "pass", v |-> <<"secret">>]>>

\* The dictionaries RcloneConfig is given: a task with its credential (from
\* sync or list_directory), or the credential alone (from list_buckets).
ConfigDefaults ==
    [direction |-> "PUSH", transfer_mode |-> "SYNC", path |-> Path,
     attributes |-> TRUE, bucket |-> Absent, folder |-> Absent,
     encryption |-> FALSE, filename_encryption |-> FALSE,
     encryption_password |-> "pw", encryption_salt |-> ""]

ConfigTasks ==
    [provider : DOMAIN REMOTES,
     direction : {"PUSH", "PULL"}, transfer_mode : {"SYNC", "COPY", "MOVE"},
     path : {Path}, attributes : {TRUE},
     bucket : {Absent, <<>>, <<"mybucket">>},
     folder : {Absent, <<>>, <<"backup">>, <<"/", "a", "/", "dir", "/">>},
     encryption : BOOLEAN, filename_encryption : BOOLEAN,
     encryption_password : {"pw"}, encryption_salt : {"", "salt"}]

ConfigInputs ==
    ConfigTasks \cup
    {[provider |-> p, direction |-> ConfigDefaults.direction,
      transfer_mode |-> ConfigDefaults.transfer_mode, path |-> Path,
      attributes |-> FALSE, bucket |-> Absent, folder |-> Absent,
      encryption |-> FALSE, filename_encryption |-> FALSE,
      encryption_password |-> "pw", encryption_salt |-> ""] : p \in DOMAIN REMOTES}

\* "/".join([bucket, folder])
Join(bucket, folder) == bucket \o <<"/">> \o folder

\* "remote:" + "/".join([attributes.get("bucket", ""),
\*                       attributes.get("folder", "")]).strip("/")
BaseRemote(cs) == <<"remote:">> \o Strip(Join(Get(cs.bucket), Get(cs.folder)))

NoRemotePath == <<"<None>">>
EncryptedRemote == <<"encrypted:", "/">>

\* The [encrypted] section written with filename_encryption always standard.
EncryptedSectionStandard(cs) ==
    IF cs.attributes /\ cs.encryption
    THEN <<[k |-> "[encrypted]", v |-> <<>>],
           [k |-> "type", v |-> <<"crypt">>],
           [k |-> "remote", v |-> BaseRemote(cs)],
           [k |-> "filename_encryption", v |-> <<"standard">>],
           [k |-> "password", v |-> Obscured(cs.encryption_password)]>>
         \o (IF cs.encryption_salt # ""
             THEN <<[k |-> "password2", v |-> Obscured(cs.encryption_salt)]>>
             ELSE <<>>)
    ELSE <<>>

\* The lines __enter__ writes for the [encrypted] section (lines 57-67).
EncryptedSection(cs) ==
    IF cs.attributes /\ cs.encryption
    THEN <<[k |-> "[encrypted]", v |-> <<>>],
           [k |-> "type", v |-> <<"crypt">>],
           [k |-> "remote", v |-> BaseRemote(cs)],
           [k |-> "filename_encryption",
            v |-> IF cs.filename_encryption THEN <<"standard">> ELSE <<"off">>],
           [k |-> "password", v |-> Obscured(cs.encryption_password)]>>
         \o (IF cs.encryption_salt # ""
             THEN <<[k |-> "password2", v |-> Obscured(cs.encryption_salt)]>>
             ELSE <<>>)
    ELSE <<>>

\* config["pass"] = rclone_encrypt_password(config["pass"])
ObscurePass(line) ==
    IF line.k = "pass" THEN [line EXCEPT !.v = Obscured(line.v[1])] ELSE line

\* The attributes of the task, as config keys.
TaskAttributes(cs) ==
    (IF cs.attributes /\ cs.bucket # Absent THEN <<[k |-> "bucket", v |-> cs.bucket]>> ELSE <<>>)
    \o (IF cs.attributes /\ cs.folder # Absent THEN <<[k |-> "folder", v |-> cs.folder]>> ELSE <<>>)

\* The [remote] section: the credential's attributes, the provider's type,
\* the task's attributes (lines 44-52 and 71-73); the providers of the model
\* add no extra keys.
RemoteSection(cs) ==
    <<[k |-> "[remote]", v |-> <<>>]>>
    \o [i \in DOMAIN CredentialAttributes(cs.provider)
          |-> ObscurePass(CredentialAttributes(cs.provider)[i])]
    \o <<[k |-> "type", v |-> REMOTES[cs.provider].rclone_type]>>
    \o TaskAttributes(cs)

\* What __enter__ writes into the temporary file.
ConfigFile(cs) == EncryptedSection(cs) \o RemoteSection(cs)

\* config.remote_path as __enter__ returns it.
RemotePath(cs) ==
    IF ~cs.attributes THEN NoRemotePath
    ELSE IF cs.encryption THEN EncryptedRemote ELSE BaseRemote(cs)

\* transfer_mode.lower()
Lower(transfer_mode) ==
    CASE transfer_mode = "SYNC" -> <<"sync">>
      [] transfer_mode = "COPY" -> <<"copy">>
      [] transfer_mode = "MOVE" -> <<"move">>

\* The command line with the local path always first.
ArgsPushOnly(cs, config) ==
    <<<<"/", "usr", "/", "local", "/", "bin", "/", "rclone">>,
      <<"--config">>, config.config_path, <<"-v">>, <<"--stats">>, <<"1s">>,
      Lower(cs.transfer_mode)>>
    \o <<cs.path, config.remote_path>>

\* The command line rclone() builds (lines 87-98).
Args(cs, config) ==
    <<<<"/", "usr", "/", "local", "/", "bin", "/", "rclone">>,
      <<"--config">>, config.config_path, <<"-v">>, <<"--stats">>, <<"1s">>,
      Lower(cs.transfer_mode)>>
    \o (IF cs.direction = "PUSH"
        THEN <<cs.path, config.remote_path>>
        ELSE <<config.remote_path, cs.path>>)

ConfInit ==
    [state |-> "new", cloud_sync |-> [ConfigDefaults EXCEPT !.attributes = FALSE] @@ [provider |-> "S3"],
     file |-> <<>>, config_path |-> <<>>, remote_path |-> NoRemotePath, args |-> <<>>]

\* RcloneConfig(cloud_sync).__enter__
ConfigEnter ==
    /\ conf.state = "new"
    /\ conf' = [conf EXCEPT !.state = "entered",
                            !.file = ConfigFile(conf.cloud_sync),
                            !.config_path = ConfigPath,
                            !.remote_path = RemotePath(conf.cloud_sync)]
    /\ UNCHANGED <<job, tasks, call, cachevars>>

\* rclone() builds the command line of the transfer of a task.
RcloneArgs ==
    /\ conf.state = "entered" /\ conf.cloud_sync.attributes
    /\ conf' = [conf EXCEPT !.state = "spawned", !.args = Args(conf.cloud_sync, conf)]
    /\ UNCHANGED <<job, tasks, call, cachevars>>

\* RcloneConfig.__exit__
ConfigExit ==
    /\ conf.state \in {"entered", "spawned"}
    /\ conf' = [conf EXCEPT !.state = "closed"]
    /\ UNCHANGED <<job, tasks, call, cachevars>>

(***************************************************************************)
(* The cache (CacheService).  Python objects are records of one shape:      *)
(* type, a number n (of an int or a datetime) and items (of a list).        *)
(***************************************************************************)

Keys == {"a", "b"}

Obj(type, n, items) == [type |-> type, n |-> n, items |-> items]
None == Obj("None", 0, <<>>)
PyInt(n) == Obj("int", n, <<>>)
Datetime(t) == Obj("datetime", t, <<>>)
List(items) == Obj("list", 0, items)
\* No entry of the dictionary.
Missing == Obj("<missing>", 0, <<>>)

\* The values put in the model: an int, a list, a list that ends with a
\* datetime.
One == PyInt(1)
Values == {One, List(<<One>>), List(<<One, Datetime(1)>>)}
\* The timeouts put: none, or an instant.
Timeouts == {None} \cup {Datetime(t) : t \in 1..MaxTime}

\* What a call gives: it returns a value or raises.
Returns(value) == [outcome |-> "return", value |-> value]
Raise(exception) == [outcome |-> exception, value |-> None]

NotWritten == [value |-> None, timeout |-> None, put |-> FALSE, expired |-> FALSE]
ReplyInit ==
    [op |-> "none", key |-> "a", at |-> 0, outcome |-> "return", value |-> None]

\* put: the object stored under the key.
CacheEntry(value, timeout) ==
    IF timeout # None THEN List(<<value, timeout>>) ELSE value

\* get_timeout's test with > for >=.
ExpiredAfter(t, timeout) == t > timeout.n

\* get_timeout: now >= timeout
Expired(t, timeout) == t >= timeout.n

\* get(key) on the dictionary c at time t: what it gives, and whether it
\* deletes the entry.  c[key][-1] raises KeyError without the entry,
\* TypeError on an int, IndexError on an empty list; get_timeout's
\* `value, timeout = ...` raises ValueError unless the list has two items.
GetResult(c, key, t) ==
    LET entry == c[key]
    IN IF entry = Missing THEN [gives |-> Raise("KeyError"), deletes |-> FALSE]
       ELSE IF entry.type # "list" THEN [gives |-> Raise("TypeError"), deletes |-> FALSE]
       ELSE IF entry.items = <<>> THEN [gives |-> Raise("IndexError"), deletes |-> FALSE]
       ELSE IF entry.items[Len(entry.items)].type # "datetime"
            THEN [gives |-> Returns(entry), deletes |-> FALSE]
       ELSE IF Len(entry.items) # 2 THEN [gives |-> Raise("ValueError"), deletes |-> FALSE]
       ELSE IF Expired(t, entry.items[2])
            THEN [gives |-> Raise("KeyError"), deletes |-> TRUE]
       ELSE [gives |-> Returns(entry.items[1]), deletes |-> FALSE]

Replied(op, key, gives) ==
    [op |-> op, key |-> key, at |-> now, outcome |-> gives.outcome, value |-> gives.value]

\* has_key(key)
CacheHasKey(key) ==
    /\ reply' = Replied("has_key", key,
                        Returns(Obj("bool", IF cache[key] # Missing THEN 1 ELSE 0, <<>>)))
    /\ UNCHANGED <<job, tasks, call, conf, cache, now, written>>

\* get(key)
CacheGet(key) ==
    LET r == GetResult(cache, key, now)
    IN /\ reply' = Replied("get", key, r.gives)
       /\ cache' = IF r.deletes THEN [cache EXCEPT ![key] = Missing] ELSE cache
       /\ written' = IF r.deletes THEN [written EXCEPT ![key].expired = TRUE] ELSE written
       /\ UNCHANGED <<job, tasks, call, conf, now>>

\* put(key, value, timeout)
CachePut(key, value, timeout) ==
    /\ cache' = [cache EXCEPT ![key] = CacheEntry(value, timeout)]
    /\ written' = [written EXCEPT ![key] =
                      [value |-> value, timeout |-> timeout, put |-> TRUE, expired |-> FALSE]]
    /\ reply' = Replied("put", key, Returns(None))
    /\ UNCHANGED <<job, tasks, call, conf, now>>

\* pop(key): removes the entry and returns it, None without one.
CachePop(key) ==
    /\ reply' = Replied("pop", key, Returns(IF cache[key] = Missing THEN None ELSE cache[key]))
    /\ cache' = [cache EXCEPT ![key] = Missing]
    /\ written' = [written EXCEPT ![key] = NotWritten]
    /\ UNCHANGED <<job, tasks, call, conf, now>>

\* Time passes.
Tick ==
    /\ now < MaxTime
    /\ now' = now + 1
    /\ UNCHANGED <<job, tasks, call, conf, cache, written, reply>>

(***************************************************************************)
(* The two state machines.                                                 *)
(***************************************************************************)

Init ==
    /\ job = [j \in Jobs |-> JobInit]
    /\ tasks = [i \in TaskIds |-> [row |-> "free"]]
    /\ call = CallInit
    /\ conf = ConfInit
    /\ cache = [k \in Keys |-> Missing]
    /\ now = 0
    /\ written = [k \in Keys |-> NotWritten]
    /\ reply = ReplyInit

Next ==
    \/ \E j \in Jobs, id \in SyncIds : Request(j, id)
    \/ \E j \in Jobs : JobStart(j)
    \/ \E j \in Jobs, outcome \in {"missing", "init", "enter", "ok"} : SyncLoad(j, outcome)
    \/ \E j \in Jobs, spawned \in BOOLEAN : PopenReturn(j, spawned)
    \/ \E j \in Jobs, line \in Lines : ChildWrite(j, line)
    \/ \E j \in Jobs, rc \in {0, 1} : ChildExit(j, rc)
    \/ \E j \in Jobs : ReadLine(j)
    \/ \E j \in Jobs : WaitReturn(j)
    \/ \E j \in Jobs : DrainReturn(j)
    \/ \E j \in Jobs : Cancel(j)
    \/ \E j \in Jobs : Finalize(j)

Spec == Init /\ [][Next]_vars

NextCrud ==
    \/ \E params \in TaskData : Receive("create", 0, Fields, params)
    \/ \E id \in TaskIds, keys \in PatchKeys : \E params \in Named(keys) :
          Receive("update", id, keys, params)
    \/ \E id \in TaskIds : Receive("delete", id, {}, DefaultData)
    \/ \E w \in AnswersFor(call.params) : do_create(w)
    \/ do_update_missing
    \/ /\ call.state = "pending" /\ call.method = "update" /\ tasks[call.id].row = "stored"
       /\ \E w \in AnswersFor(Merged) : do_update(w)
    \/ do_delete

SpecCrud == Init /\ [][NextCrud]_vars

\* The config builder applied to every dictionary of ConfigInputs.
InitConfig ==
    /\ job = [j \in Jobs |-> JobInit]
    /\ tasks = [i \in TaskIds |-> [row |-> "free"]]
    /\ call = CallInit
    /\ conf \in {[ConfInit EXCEPT !.cloud_sync = cs] : cs \in ConfigInputs}
    /\ cache = [k \in Keys |-> Missing]
    /\ now = 0
    /\ written = [k \in Keys |-> NotWritten]
    /\ reply = ReplyInit

NextConfig == ConfigEnter \/ RcloneArgs \/ ConfigExit

SpecConfig == InitConfig /\ [][NextConfig]_vars

NextCache ==
    \/ \E key \in Keys : CacheHasKey(key)
    \/ \E key \in Keys : CacheGet(key)
    \/ \E key \in Keys, value \in Values, timeout \in Timeouts : CachePut(key, value, timeout)
    \/ \E key \in Keys : CachePop(key)
    \/ Tick

SpecCache == Init /\ [][NextCache]_vars

(***************************************************************************)
(* Properties of the transfer executor, checked under Spec.                *)
(***************************************************************************)

SameTask(a, b) == a # b /\ job[a].task = job[b].task

\* C1: for every task id, at most one execution of sync()/rclone() is in
\* flight at any time; a run requested while another run of the same id is
\* in flight begins only after that run has completed.
C1_SingleFlight ==
    \A a, b \in Jobs : SameTask(a, b) /\ InFlight(a) => ~InFlight(b)

\* C1's case: run A of a task has spawned its tool and ended, and run B of the
\* same task, requested after A, is now executing.
C1_Witness ==
    \E a, b \in Jobs :
        /\ SameTask(a, b) /\ a < b
        /\ Ended(a) /\ job[a].spawns = 1
        /\ InFlight(b) /\ job[b].pc = "proc.wait"

Pending(id) == {k \in Jobs : job[k].state = "WAITING" /\ job[k].task = id}
Running(id) == {k \in Jobs : InFlight(k) /\ job[k].task = id}

\* C2: a sync request that arrives while a run of the same id is in flight
\* (and none is pending) is queued, neither rejected nor run concurrently; a
\* queued request starts only when no run of its id is in flight; and at no
\* time is more than one request pending per task id.
C2_QueuedBehindLock ==
    /\ [](\A id \in SyncIds : Cardinality(Pending(id)) <= 1)
    /\ [][\A j \in Jobs, id \in SyncIds :
            (Request(j, id) /\ Running(id) # {} /\ Pending(id) = {})
                => job'[j].state = "WAITING"]_vars
    /\ [][\A j \in Jobs :
            (job[j].state = "WAITING" /\ job'[j].state # "WAITING")
                => (job'[j].state = "RUNNING" /\ Running(job[j].task) = {})]_vars

\* C2's case: a request is queued behind the run of the same id in flight.
C2_Witness ==
    \E a, b \in Jobs :
        SameTask(a, b) /\ InFlight(a) /\ job[a].pc = "proc.wait" /\ job[b].state = "WAITING"

\* C3: no ephemeral config file outlives the operation that made it, on any
\* exit path (success, tool failure, exception).
C3_NoConfigOutlivesRun ==
    \A j \in Jobs : Ended(j) => job[j].file # "open"

\* C6: once the job system has cancelled a run, its child process is not
\* running, and its config file is gone.
C6_CancelStopsChild ==
    \A j \in Jobs : job[j].state = "ABORTED" =>
        (job[j].proc # "running" /\ job[j].file # "open")

Handled == call.state = "done" /\ call.method \in {"create", "update"}

\* The handler made the call x on a collaborator.
Made(x) == \E i \in 1..Len(call.calls) : call.calls[i] = x

Stored(id) == tasks[id].row = "stored"

\* The handler came to validate call.cloud_sync: every create does, and an
\* update does when the task of its id exists (otherwise the lookup raises
\* and there is no task to speak of).
Validated == Handled /\ (call.method = "update" => Stored(call.id))

\* C4: create and update validate before they persist: a call that has any
\* validation error fails as a whole, making no datastore insert or update
\* and no scheduler restart, and leaves the stored tasks unchanged.
C4_RejectedWritesNothing ==
    /\ [](Handled =>
            /\ call.errs # {} => call.outcome # "ok"
            /\ call.outcome # "ok"
                  => (~Made("insert") /\ ~Made("update") /\ ~Made("restart")))
    /\ [][(call.state = "pending" /\ call'.state = "done"
             /\ call.method \in {"create", "update"} /\ call'.outcome # "ok")
            => tasks' = tasks]_vars

\* C4's case: an update of a stored task was rejected with validation errors.
C4_Witness ==
    /\ Handled /\ call.method = "update" /\ call.outcome = "verrors"
    /\ Stored(call.id)

\* C5: every stored task has encryption_password and encryption_salt
\* encrypted exactly once; what create and update hand to the datastore is
\* the single encryption of the plaintext they validated.
C5_SecretsStoredEncrypted ==
    /\ \A id \in TaskIds : Stored(id) =>
          /\ tasks[id].encryption_password.layers = 1
          /\ tasks[id].encryption_salt.layers = 1
    /\ (Handled /\ call.outcome = "ok") =>
          /\ call.cloud_sync.encryption_password.layers = 0
          /\ call.cloud_sync.encryption_salt.layers = 0
          /\ tasks[call.id].encryption_password
                = pwenc_encrypt(call.cloud_sync.encryption_password)
          /\ tasks[call.id].encryption_salt
                = pwenc_encrypt(call.cloud_sync.encryption_salt)

\* C5's case: an update has rewritten a task that carries a password.
C5_Witness ==
    /\ Handled /\ call.method = "update" /\ call.outcome = "ok"
    /\ tasks[call.id].encryption_password.text = "pw"

\* C9: for either direction and every registered provider, a task with
\* encryption on and an empty encryption_password is rejected with a
\* validation error on encryption_password; no such task is stored.
C9_EmptyPasswordRejected ==
    /\ (Validated /\ call.cloud_sync.encryption
          /\ IsEmpty(call.cloud_sync.encryption_password)) =>
          /\ call.outcome # "ok"
          /\ ~Made("insert") /\ ~Made("update")
          /\ Resolves(call.cloud_sync.credentials)
                => (call.outcome = "verrors" /\ ErrPassword \in call.errs)
    /\ \A id \in TaskIds : Stored(id) =>
          ~(tasks[id].encryption /\ IsEmpty(pwenc_decrypt(tasks[id].encryption_password)))

\* C9's case: a PULL task of the read-only provider, encryption on, no
\* password, was rejected on encryption_password.
C9_Witness ==
    /\ Validated /\ call.cloud_sync.direction = "PULL"
    /\ call.cloud_sync.credentials = 2
    /\ call.cloud_sync.encryption /\ IsEmpty(call.cloud_sync.encryption_password)
    /\ ErrPassword \in call.errs

\* The provider of the credential is registered and read-only.
ReadonlyProvider(credentials) == Resolves(credentials) /\ Provider(credentials).readonly

\* C10: a PUSH task whose provider is read-only is rejected with validation
\* errors, whether or not its attributes are valid and without any listing
\* of the folder; with nothing else wrong the error is the read-only error
\* on direction; no such task is stored.
C10_PushToReadonlyRejected ==
    /\ (Validated /\ call.cloud_sync.direction = "PUSH"
          /\ ReadonlyProvider(call.cloud_sync.credentials)) =>
          /\ call.outcome = "verrors"
          /\ ~Made("insert") /\ ~Made("update") /\ ~Made("ls")
          /\ ErrReadonly \in call.errs
                \/ call.errs \cap {ErrPassword, ErrAttribute, ErrHook} # {}
    /\ \A id \in TaskIds : Stored(id) =>
          ~(tasks[id].direction = "PUSH" /\ ReadonlyProvider(tasks[id].credential))

\* C10's case: a PUSH task of the read-only provider with nothing else wrong
\* was rejected with the read-only error.
C10_Witness ==
    /\ Validated /\ call.cloud_sync.direction = "PUSH"
    /\ call.errs = {ErrReadonly}

\* The listing _validate_folder received has an entry that is a directory
\* and has the base name of the task's folder.
ListedAsDirectory ==
    \E i \in DOMAIN call.listed :
        /\ call.listed[i].Name = Basename(Strip(call.cloud_sync.attributes.folder))
        /\ call.listed[i].IsDir

\* C11: a PULL task whose folder's parent was listed is accepted if and only
\* if the listing has an entry with the folder's base name that is a
\* directory, whatever the listing (no match, a match that is not a
\* directory, several entries of the same name).
C11_AcceptedIffListedAsDirectory ==
    (Validated /\ call.cloud_sync.direction = "PULL"
       /\ Made("ls") /\ call.outcome # "exception")
    => (call.outcome = "ok" <=> ListedAsDirectory)

\* The credential exists and names a provider that is not registered.
UnknownProvider(credentials) ==
    /\ credentials \in DOMAIN CloudCredentials
    /\ CloudCredentials[credentials].provider \notin DOMAIN REMOTES

\* C12: a create or update of a task whose credential names a provider that
\* is not registered ends with validation errors, not with another
\* exception, and writes nothing.
C12_UnknownProviderIsValidationError ==
    (Validated /\ UnknownProvider(call.cloud_sync.credentials))
    => /\ call.outcome = "verrors"
       /\ ~Made("insert") /\ ~Made("update")

\* The datastore call a method makes to persist its change.
WriteOf(method) ==
    CASE method = "create" -> "insert"
      [] method = "update" -> "update"
      [] method = "delete" -> "delete"
      [] OTHER -> "none"

\* How many times the handler called x.
Count(x) == Cardinality({i \in 1..Len(call.calls) : call.calls[i] = x})

\* C13: a create, update or delete that succeeds restarts cron exactly once,
\* as its last call and right after its one datastore write; a create or
\* update that fails restarts nothing.
C13_OneRestartAfterWrite ==
    /\ (call.state = "done" /\ call.outcome = "ok") =>
          /\ Count("restart") = 1
          /\ Count(WriteOf(call.method)) = 1
          /\ Len(call.calls) >= 2
          /\ call.calls[Len(call.calls)] = "restart"
          /\ call.calls[Len(call.calls) - 1] = WriteOf(call.method)
    /\ (Handled /\ call.outcome # "ok") => Count("restart") = 0

\* C13's case: an update that listed the folder's parent, wrote the row and
\* restarted cron.
C13_Witness ==
    /\ call.state = "done" /\ call.method = "update"
    /\ call.calls = <<"ls", "update", "restart">>

\* C14: runs of different tasks never block each other.  A request for a
\* task none of whose requests is pending gets a job of its own; a waiting
\* job whose task has no run in flight can start, whatever runs of other
\* tasks are in flight.
C14_DifferentTasksInParallel ==
    /\ [](\A j \in Jobs :
            (job[j].state = "WAITING" /\ Running(job[j].task) = {})
                => ENABLED JobStart(j))
    /\ [][\A j \in Jobs, id \in SyncIds :
            (Request(j, id) /\ Pending(id) = {}) => job'[j].state = "WAITING"]_vars

\* C14's case: runs of two different tasks are in flight together, each
\* waiting for its own tool.
C14_Witness ==
    \E a, b \in Jobs :
        /\ job[a].task # job[b].task
        /\ InFlight(a) /\ job[a].pc = "proc.wait"
        /\ InFlight(b) /\ job[b].pc = "proc.wait"

(***************************************************************************)
(* Properties of the config builder, checked under SpecConfig.             *)
(***************************************************************************)

\* __enter__ has written the config of a task.
Built == conf.state \in {"entered", "spawned", "closed"} /\ conf.cloud_sync.attributes

IsHeader(line) == line.k \in {"[encrypted]", "[remote]"}

\* The file has the line `k = v` in the section with the given header.
InSection(header, k, v) ==
    \E h, i \in DOMAIN conf.file :
        /\ h < i /\ conf.file[h].k = header
        /\ \A m \in (h + 1)..i : ~IsHeader(conf.file[m])
        /\ conf.file[i] = [k |-> k, v |-> v]

\* How many lines of the file have the key k.
LinesWithKey(k) == Cardinality({i \in DOMAIN conf.file : conf.file[i].k = k})

\* C15: with encryption on, the config of a task has one [encrypted] section,
\* of type crypt, whose remote is the base remote path and whose
\* filename_encryption is standard exactly when the flag is set, and the
\* effective remote path is encrypted:/ ; with encryption off the config has
\* no [encrypted] section and the effective remote path is the base one.
C15_EncryptedSection ==
    Built =>
      LET cs == conf.cloud_sync
      IN IF cs.encryption
         THEN /\ LinesWithKey("[encrypted]") = 1
              /\ InSection("[encrypted]", "type", <<"crypt">>)
              /\ InSection("[encrypted]", "remote", BaseRemote(cs))
              /\ InSection("[encrypted]", "filename_encryption", <<"standard">>)
                    <=> cs.filename_encryption
              /\ InSection("[encrypted]", "filename_encryption", <<"off">>)
                    <=> ~cs.filename_encryption
              /\ LinesWithKey("remote") = 1 /\ LinesWithKey("filename_encryption") = 1
              /\ conf.remote_path = <<"encrypted:", "/">>
         ELSE /\ LinesWithKey("[encrypted]") = 0
              /\ LinesWithKey("filename_encryption") = 0
              /\ conf.remote_path = BaseRemote(cs)

\* C15's case: the config of a task with encryption on and filename
\* encryption off, in a bucket and a folder, has been written.
C15_Witness ==
    /\ Built /\ conf.cloud_sync.encryption /\ ~conf.cloud_sync.filename_encryption
    /\ conf.cloud_sync.bucket = <<"mybucket">> /\ conf.cloud_sync.folder = <<"backup">>
    /\ InSection("[encrypted]", "remote", <<"remote:", "mybucket", "/", "backup">>)

\* rest is joined with only separators removed, and all of them, at both ends.
Trimmed(joined, rest) ==
    /\ rest # <<>> => (rest[1] # "/" /\ rest[Len(rest)] # "/")
    /\ \E a \in 0..Len(joined) :
          /\ a + Len(rest) <= Len(joined)
          /\ SubSeq(joined, a + 1, a + Len(rest)) = rest
          /\ \A i \in 1..a : joined[i] = "/"
          /\ \A i \in (a + Len(rest) + 1)..Len(joined) : joined[i] = "/"

\* The task of the end-to-end example: PUSH/SYNC of /data to the folder
\* backup of a provider without buckets.
ExampleTask(cs) ==
    /\ cs.direction = "PUSH" /\ cs.transfer_mode = "SYNC" /\ cs.path = <<"/", "data">>
    /\ ~REMOTES[cs.provider].buckets /\ cs.bucket = Absent
    /\ cs.folder = <<"backup">> /\ ~cs.encryption

\* C16: the remote path of an unencrypted task is remote: followed by bucket
\* and folder joined with a separator and trimmed of separators at both
\* ends; the tool is run in the mode transfer_mode names with the arguments
\* (local path, remote path) for PUSH and (remote path, local path) for
\* PULL; the example task gives remote:backup and `sync /data remote:backup`.
C16_RemotePathAndInvocation ==
    LET cs == conf.cloud_sync
    IN /\ (Built /\ ~cs.encryption) =>
             /\ conf.remote_path[1] = "remote:"
             /\ Trimmed(Get(cs.bucket) \o <<"/">> \o Get(cs.folder), Tail(conf.remote_path))
       /\ conf.state = "spawned" =>
             /\ Len(conf.args) = 9
             /\ conf.args[7] = (CASE cs.transfer_mode = "SYNC" -> <<"sync">>
                                  [] cs.transfer_mode = "COPY" -> <<"copy">>
                                  [] cs.transfer_mode = "MOVE" -> <<"move">>)
             /\ cs.direction = "PUSH"
                   => (conf.args[8] = cs.path /\ conf.args[9] = conf.remote_path)
             /\ cs.direction = "PULL"
                   => (conf.args[8] = conf.remote_path /\ conf.args[9] = cs.path)
       /\ (conf.state = "spawned" /\ ExampleTask(cs)) =>
             /\ conf.remote_path = <<"remote:", "backup">>
             /\ SubSeq(conf.args, 7, 9)
                   = <<<<"sync">>, <<"/", "data">>, <<"remote:", "backup">>>>

\* C16's case: the command line of a PULL task in a bucket and a folder with
\* separators at its ends has been built.
C16_Witness ==
    /\ conf.state = "spawned" /\ conf.cloud_sync.direction = "PULL"
    /\ ~conf.cloud_sync.encryption
    /\ conf.cloud_sync.folder = <<"/", "a", "/", "dir", "/">>
    /\ conf.remote_path = <<"remote:", "mybucket", "/", "/", "a", "/", "dir">>

SchemaErrors == {ErrPassword, ErrAttribute, ErrHook}

\* C18: in create and update, when _validate has produced an error (or has
\* raised), the listing tool is not run.
C18_NoListingAfterSchemaErrors ==
    (Validated /\ (call.errs \cap SchemaErrors # {}
                     \/ ~Resolves(call.cloud_sync.credentials)))
    => ~Made("ls")

\* C18's case: a PULL task with a folder, which would be listed, was rejected
\* for its empty password without any call of the listing tool.
C18_Witness ==
    /\ Validated /\ Resolves(call.cloud_sync.credentials)
    /\ NeedsListing(call.cloud_sync)
    /\ ErrPassword \in call.errs /\ call.calls = <<>>

\* C19: a create or update that breaks several rules at once fails with one
\* error set that has the error of every rule broken: the empty password,
\* the invalid attribute, the PUSH to a read-only provider.
C19_AllErrorsTogether ==
    (Validated /\ Resolves(call.cloud_sync.credentials)) =>
        LET cs == call.cloud_sync
        IN /\ (cs.encryption /\ IsEmpty(cs.encryption_password))
                 => ErrPassword \in call.errs
           /\ cs.attributes.folder = NotAString => ErrAttribute \in call.errs
           /\ (cs.direction = "PUSH" /\ Provider(cs.credentials).readonly)
                 => ErrReadonly \in call.errs

\* C20: a successful update stores the stored record merged with the data of
\* the call: every field the data does not name keeps its value (secrets as
\* plaintext, the credential as its id), every field it names takes the
\* data's value, and the dictionary that was validated is the merged one.
C20_UpdateKeepsUnnamedFields ==
    [][(call.state = "pending" /\ call.method = "update"
          /\ call'.state = "done" /\ call'.outcome = "ok")
        => LET old == Extend(tasks[call.id])
               new == Extend(tasks'[call.id])
           IN /\ \A f \in Fields \ call.keys : new[f] = old[f]
              /\ \A f \in call.keys : new[f] = call.params[f]
              /\ call'.cloud_sync = new]_vars

\* C20's case: an update that names only the direction has rewritten a task
\* that has encryption on, a password and the schedule of week nights.
C20_Witness ==
    /\ Handled /\ call.method = "update" /\ call.outcome = "ok"
    /\ call.keys = {"direction"}
    /\ tasks[call.id].encryption
    /\ Extend(tasks[call.id]).encryption_password = Plain("pw")
    /\ Extend(tasks[call.id]).schedule = Nightly

(***************************************************************************)
(* Properties of the cache, checked under SpecCache.                       *)
(***************************************************************************)

\* The last put of the key, not popped since, had a timeout.
PutWithTimeout(key) == written[key].put /\ written[key].timeout # None

PyTrue == Obj("bool", 1, <<>>)
PyFalse == Obj("bool", 0, <<>>)

\* C21: expiry is lazy.  For a key put with a timeout: a get at or after the
\* timeout raises KeyError and leaves no entry, and so does every later get
\* until the key is put again; a get before the timeout returns the value
\* that was put; once a get has removed the entry has_key is false, and
\* until then has_key is true, also at and after the timeout.
C21_LazyExpiry ==
    /\ \A key \in Keys : written[key].expired => cache[key] = Missing
    /\ LET key == reply.key
           w == written[key]
       IN /\ (reply.op = "get" /\ PutWithTimeout(key) /\ reply.at >= w.timeout.n)
                => (reply.outcome = "KeyError" /\ cache[key] = Missing /\ w.expired)
          /\ (reply.op = "get" /\ PutWithTimeout(key) /\ reply.at < w.timeout.n)
                => (reply.outcome = "return" /\ reply.value = w.value)
          /\ (reply.op = "has_key" /\ w.expired) => reply.value = PyFalse
          /\ (reply.op = "has_key" /\ PutWithTimeout(key) /\ ~w.expired)
                => reply.value = PyTrue

\* C21's case: a key was put with a timeout, a get after the timeout removed
\* it, and a later has_key has answered false.
C21_Witness ==
    /\ reply.op = "has_key" /\ reply.value = PyFalse
    /\ PutWithTimeout(reply.key) /\ written[reply.key].expired
    /\ reply.at > written[reply.key].timeout.n

====
